---- MODULE Spec2Model ----
(***************************************************************************)
(* Model of qspectrumanalyzer/backends/hackrf_sweep.py: PowerThread.setup, *)
(* process_start, parse_output and run.                                    *)
(*                                                                         *)
(* Frequencies on the x axis are the exact rationals the code computes     *)
(* (low_edge + lnb_lo + step/2 + i*step with step = (high-low)/len(data)); *)
(* they are stored multiplied by Den, the common denominator of every step *)
(* the bounded sample counts can produce, so that they stay integers.      *)
(* Floating-point rounding of these values is not modelled.                *)
(***************************************************************************)
EXTENDS Integers, Sequences, FiniteSets, Bags, TLC

\* ---------------------------------------------------------------- bounds
MaxFrames == 2      \* length prefixes read in one run
MaxSamples == 2     \* samples in one payload
MaxTime == 2        \* largest value time.time() returns
MaxFreq == 7        \* largest requested frequency (MHz) in the setup-only specification
MaxStep == 3        \* largest sample rate (MHz) in the setup-only specification

\* ------------------------------------------------------- program constants
MHz == 1000000
HeaderBytes == 16
SampleBytes == 4
BinSizeMin == 3
BinSizeMax == 5000
GainMax == 102

\* ------------------------------------------------------------ input sets
Edges == {0, 1500000, 2000000}
Powers == {-7}
RunStartFreqs == {0, 1}
RunStopFreqs == {1}
RunSampleRates == {2000000}
RunIntervals == {0, 1}
RunLnbLos == {0, 1000000}
RunGains == {40}
RunBinSizes == {1000}

WideStartFreqs == 0..MaxFreq
WideStopFreqs == (0..MaxFreq) \cup {6000}
WideSampleRates == {k * MHz : k \in 1..MaxStep} \cup {20000000}
WideGains == (-1)..(GainMax + 2)
WideBinSizes == {1000}

VARIABLES
  params,        \* self.params
  lnb_lo,        \* self.lnb_lo
  databuffer,    \* self.databuffer: [x, y]
  lastsweep,     \* self.lastsweep
  interval,      \* self.interval
  process,       \* self.process: "none" or "running"
  alive,         \* self.alive
  pc,            \* position of the worker thread in run()
  record_length, \* local of run(), live between the two reads
  eof,           \* the pipe has delivered its last byte
  clock,         \* last value returned by time.time()
  request,       \* history: arguments of the last setup call
  arrived,       \* history: bag of the (x, y) pairs appended since the last reset
  lastbuf,       \* history: last buffer handed to parse_output
  lastevent,     \* history: how the last call of parse_output ended
  pubtime,       \* history: time of the last call of data_storage.update
  pubidx,        \* history: which completion the last call of update published
  count,         \* history: event counters
  exitreason,    \* history: why the while loop was left
  stoprequested, \* history: another thread has cleared alive
  stopmark       \* history: where run() was, and the counters, at that request

vars == <<params, lnb_lo, databuffer, lastsweep, interval, process, alive, pc,
          record_length, eof, clock, request, arrived, lastbuf,
          lastevent, pubtime, pubidx, count, exitreason, stoprequested,
                 stopmark>>

\* ------------------------------------------------------------ arithmetic
Min(a, b) == IF a < b THEN a ELSE b

RECURSIVE GCD(_, _)
GCD(a, b) == IF b = 0 THEN a ELSE GCD(b, a % b)

RECURSIVE LCMUpTo(_)
LCMUpTo(n) == IF n <= 1 THEN 1 ELSE
              LET l == LCMUpTo(n - 1) IN (l * n) \div GCD(l, n)

\* x values are stored as x * Den
Den == 2 * LCMUpTo(MaxSamples)

\* ----------------------------------------------------------------- setup
NoParams == [start_freq |-> 0, stop_freq |-> 0, bin_size |-> 0, interval |-> 0,
             gain |-> 0, lna_gain |-> 0, vga_gain |-> 0]

NoRequest == [start_freq |-> -1, stop_freq |-> -1, bin_size |-> -1, interval |-> -1,
              gain |-> -1, sample_rate |-> -1, lnb_lo |-> -1]

EmptyBuffer == [x |-> <<>>, y |-> <<>>]

clamp_bin_size(bin_size) ==
  IF bin_size < BinSizeMin THEN BinSizeMin
  ELSE IF bin_size > BinSizeMax THEN BinSizeMax ELSE bin_size

\* the step count without the "- 1" of line 54
derive_stop_freq_plain(start_freq, stop_freq, sample_rate) ==
  LET step_bandwidth == sample_rate \div MHz
      total_bandwidth == stop_freq - start_freq
      step_count == 1 + (total_bandwidth \div step_bandwidth)
  IN  start_freq + step_count * step_bandwidth

\* lines 52-56; sample_rate is a whole number of MHz
derive_stop_freq(start_freq, stop_freq, sample_rate) ==
  LET step_bandwidth == sample_rate \div MHz
      total_bandwidth == stop_freq - start_freq
      step_count == 1 + ((total_bandwidth - 1) \div step_bandwidth)
  IN  start_freq + step_count * step_bandwidth

clamp_gain(gain) == IF gain > GainMax THEN GainMax ELSE gain

\* the first stage rounded to the nearest step instead of floored
lna_gain_rounded(gain) == IF gain >= 0 THEN 8 * ((gain + 9) \div 18) ELSE 0

lna_gain_of(gain) == IF gain >= 0 THEN 8 * (gain \div 18) ELSE 0

vga_gain_of(gain) == IF gain >= 0 THEN 2 * ((gain - lna_gain_of(gain)) \div 2) ELSE 0

setup_params(req) ==
  LET g == clamp_gain(req.gain) IN
  [start_freq |-> req.start_freq,
   stop_freq  |-> derive_stop_freq(req.start_freq, req.stop_freq, req.sample_rate),
   bin_size   |-> clamp_bin_size(req.bin_size),
   interval   |-> req.interval,
   gain       |-> g,
   lna_gain   |-> lna_gain_of(g),
   vga_gain   |-> vga_gain_of(g)]

Requests(starts, stops, rates, intervals, gains, bins, lnbs) ==
  [start_freq : starts, stop_freq : stops, bin_size : bins, interval : intervals,
   gain : gains, sample_rate : rates, lnb_lo : lnbs]

RunRequests == Requests(RunStartFreqs, RunStopFreqs, RunSampleRates, RunIntervals,
                        RunGains, RunBinSizes, RunLnbLos)

WideRequests == Requests(WideStartFreqs, WideStopFreqs, WideSampleRates, {0},
                         WideGains, WideBinSizes, {0})

\* PowerThread.setup: no argument is rejected, every field is overwritten
setup(req) ==
  /\ params' = setup_params(req)
  /\ lnb_lo' = req.lnb_lo
  /\ databuffer' = EmptyBuffer
  /\ lastsweep' = 0
  /\ interval' = req.interval
  /\ request' = req
  /\ arrived' = EmptyBag

NoMark == [phase |-> "none", read |-> 0, parsed |-> 0]

ZeroCount == [launched |-> 0, started |-> 0, stopped |-> 0, stopcalls |-> 0,
              read |-> 0, parsed |-> 0, complete |-> 0, pub |-> 0]

NoBuf == [n |-> 0, low |-> 0, high |-> 0, data |-> <<>>]

\* the object after construction, before the first call of setup
Constructed ==
  /\ params = NoParams
  /\ lnb_lo = 0
  /\ databuffer = EmptyBuffer
  /\ lastsweep = 0
  /\ interval = 0
  /\ process = "none"
  /\ alive = FALSE
  /\ pc = "idle"
  /\ record_length = 0
  /\ eof = FALSE
  /\ clock = 0
  /\ arrived = EmptyBag
  /\ lastbuf = NoBuf
  /\ lastevent = "none"
  /\ pubtime = 0
  /\ pubidx = 0
  /\ count = ZeroCount
  /\ exitreason = "none"
  /\ stoprequested = FALSE
  /\ stopmark = NoMark

Init ==
  /\ Constructed
  /\ request = NoRequest

\* setup is called by the application before the thread is started
Setup ==
  /\ pc = "idle"
  /\ \E req \in RunRequests : setup(req)
  /\ UNCHANGED <<process, alive, pc, record_length, eof, clock, lastbuf,
                 lastevent, pubtime, pubidx, count, exitreason, stoprequested,
                 stopmark>>

\* the setup-only specification: one call of setup, its arguments drawn at the start
InitSetup ==
  /\ Constructed
  /\ request \in WideRequests

SetupWide ==
  /\ pc = "idle"
  /\ params = NoParams
  /\ setup(request)
  /\ UNCHANGED <<process, alive, pc, record_length, eof, clock, lastbuf,
                 lastevent, pubtime, pubidx, count, exitreason, stoprequested,
                 stopmark>>

\* ---------------------------------------------------------- parse_output
\* payload sizes the pipe can deliver: empty, shorter than the header, the bare
\* header, a size that is not sample-aligned, and the header with 1..MaxSamples samples
LenChoices == {0, 6, HeaderBytes, HeaderBytes + 2} \cup
              {HeaderBytes + SampleBytes * k : k \in 1..MaxSamples}

\* sample sequences of length N: a level, falling by one from sample to sample
SampleSeqs(N) == {[i \in 1..N |-> p - i] : p \in Powers}

\* buffers of n bytes: two edges and as many whole samples as fit
Bufs(n) ==
  IF n < HeaderBytes THEN {[n |-> n, low |-> 0, high |-> 0, data |-> <<>>]}
  ELSE {[n |-> n, low |-> l, high |-> h, data |-> d] :
          l \in Edges, h \in Edges,
          d \in SampleSeqs((n - HeaderBytes) \div SampleBytes)}

\* struct.unpack('QQ', buf[:16]) needs 16 bytes
unpack_ok(buf) == buf.n >= HeaderBytes

\* np.frombuffer(buf[16:], dtype='<f4') needs a whole number of 4-byte items
frombuffer_ok(buf) == (buf.n - HeaderBytes) % SampleBytes = 0

len_data(buf) == (buf.n - HeaderBytes) \div SampleBytes

\* the reset check without the floor division
ResetCheck_nofloor(low_edge) ==
  low_edge <= params.start_freq * MHz - lnb_lo

\* (low_edge // 1000000) <= start_freq - lnb_lo / 1e6, both sides times 1e6
ResetCheck(low_edge) ==
  (low_edge \div MHz) * MHz <= params.start_freq * MHz - lnb_lo

\* the completion check against the start of the range
CompletionCheck_start(high_edge) ==
  high_edge >= params.start_freq * MHz - lnb_lo

\* (high_edge / 1e6) >= stop_freq - lnb_lo / 1e6, both sides times 1e6
CompletionCheck(high_edge) ==
  high_edge >= params.stop_freq * MHz - lnb_lo

\* an axis that starts at the low edge and runs to the high edge inclusive
arange_len_to_high(buf) == len_data(buf) + 1

\* the number of values of np.arange(start, stop, step), ceil((stop - start) / step),
\* for start = low + lnb_lo + step/2, stop = high + lnb_lo, step = (high - low) / N:
\* numerator and denominator both times 2 * N, the denominator made positive
arange_len(buf) ==
  LET N   == len_data(buf)
      num == (2 * N - 1) * (buf.high - buf.low)
      den == 2 * (buf.high - buf.low)
      a   == IF den < 0 THEN -num ELSE num
      b   == IF den < 0 THEN -den ELSE den
      q   == -((-a) \div b)
  IN  IF q > 0 THEN q ELSE 0

\* bin edges instead of bin centres: the axis without the half step
x_axis_from_low(buf) ==
  LET N == len_data(buf) IN
  [i \in 1..arange_len(buf) |-> Den * (buf.low + lnb_lo)
                  + (2 * i - 2) * (buf.high - buf.low) * (Den \div (2 * N))]

\* np.arange(low + lnb_lo + step/2, high + lnb_lo, step), each value times Den
x_axis(buf) ==
  LET N == len_data(buf) IN
  [i \in 1..arange_len(buf) |-> Den * (buf.low + lnb_lo)
                  + (2 * i - 1) * (buf.high - buf.low) * (Den \div (2 * N))]

zip(xs, ys) == [i \in 1..Min(Len(xs), Len(ys)) |-> <<xs[i], ys[i]>>]

\* comparison of two (x, y) tuples
TupleLess(a, b) == a[1] < b[1] \/ (a[1] = b[1] /\ a[2] < b[2])

RECURSIVE Insert(_, _)
Insert(s, e) ==
  IF s = <<>> THEN <<e>>
  ELSE IF TupleLess(e, Head(s)) THEN <<e>> \o s
  ELSE <<Head(s)>> \o Insert(Tail(s), e)

RECURSIVE sorted(_)
sorted(s) ==
  IF s = <<>> THEN <<>>
  ELSE Insert(sorted(SubSeq(s, 1, Len(s) - 1)), s[Len(s)])

\* the x list sorted on its own, the y list left as it was
sort_databuffer_x_only(db) ==
  LET sorted_data == sorted(zip(db.x, db.x)) IN
  [x |-> [i \in 1..Len(sorted_data) |-> sorted_data[i][1]],
   y |-> db.y]

\* lines 137-138: sort the pairs and split them back into the two lists
sort_databuffer(db) ==
  LET sorted_data == sorted(zip(db.x, db.y)) IN
  [x |-> [i \in 1..Len(sorted_data) |-> sorted_data[i][1]],
   y |-> [i \in 1..Len(sorted_data) |-> sorted_data[i][2]]]

\* a buffer that is never emptied
after_reset_never(buf) == databuffer

\* line 121-124
after_reset(buf) == IF ResetCheck(buf.low) THEN EmptyBuffer ELSE databuffer

\* the frequencies appended before the reset check, the powers after it
after_append_late_reset(buf) ==
  [x |-> IF ResetCheck(buf.low) THEN <<>> ELSE databuffer.x \o x_axis(buf),
   y |-> after_reset(buf).y \o buf.data]

\* lines 125-128
after_append(buf) ==
  [x |-> after_reset(buf).x \o x_axis(buf),
   y |-> after_reset(buf).y \o buf.data]

\* the throttle without the interval
throttled_no_interval(t_finish) == t_finish < lastsweep

\* the throttle with <= for <
throttled_inclusive(t_finish) == t_finish <= lastsweep + interval

\* line 132
throttled(t_finish) == t_finish < lastsweep + interval

SeqToBag(s) ==
  [e \in {s[i] : i \in DOMAIN s} |-> Cardinality({i \in DOMAIN s : s[i] = e})]

\* the pairs received since, and with, the last segment at the start of the range
arrived_after_reset(buf) ==
  IF (buf.low \div MHz) * MHz <= params.start_freq * MHz - lnb_lo
    THEN EmptyBag ELSE arrived

arrived_after_append(buf) ==
  arrived_after_reset(buf) (+) SeqToBag(zip(x_axis(buf), buf.data))

\* ------------------------------------------------------------------- run
\* lines 143 and 84-113
RunProcessStart ==
  /\ pc = "idle"
  /\ request # NoRequest
  /\ IF process = "none" /\ params # NoParams
       THEN /\ process' = "running"
            /\ count' = [count EXCEPT !.launched = @ + 1]
       ELSE UNCHANGED <<process, count>>
  /\ pc' = "set_alive"
  /\ UNCHANGED <<params, lnb_lo, databuffer, lastsweep, interval, alive,
                 record_length, eof, clock, request, arrived, lastbuf,
                 lastevent, pubtime, pubidx, exitreason, stoprequested,
                 stopmark>>

\* line 144
SetAlive ==
  /\ pc = "set_alive"
  /\ alive' = TRUE
  /\ pc' = "emit_started"
  /\ UNCHANGED <<params, lnb_lo, databuffer, lastsweep, interval, process,
                 record_length, eof, clock, request, arrived, lastbuf,
                 lastevent, pubtime, pubidx, count, exitreason, stoprequested,
                 stopmark>>

\* line 145
EmitStarted ==
  /\ pc = "emit_started"
  /\ count' = [count EXCEPT !.started = @ + 1]
  /\ pc' = "loop"
  /\ UNCHANGED <<params, lnb_lo, databuffer, lastsweep, interval, process, alive,
                 record_length, eof, clock, request, arrived, lastbuf,
                 lastevent, pubtime, pubidx, exitreason, stoprequested,
                 stopmark>>

\* a loop that starts the next iteration without consulting the flag
LoopEnter_unchecked ==
  /\ pc = "loop"
  /\ pc' = "read_len"
  /\ UNCHANGED <<params, lnb_lo, databuffer, lastsweep, interval, process, alive,
                 record_length, eof, clock, request, arrived, lastbuf,
                 lastevent, pubtime, pubidx, count, exitreason, stoprequested,
                 stopmark>>

\* line 147, flag set
LoopEnter ==
  /\ pc = "loop"
  /\ alive
  /\ pc' = "read_len"
  /\ UNCHANGED <<params, lnb_lo, databuffer, lastsweep, interval, process, alive,
                 record_length, eof, clock, request, arrived, lastbuf,
                 lastevent, pubtime, pubidx, count, exitreason, stoprequested,
                 stopmark>>

\* line 147, flag cleared
LoopExit ==
  /\ pc = "loop"
  /\ ~alive
  /\ pc' = "process_stop"
  /\ exitreason' = "stop"
  /\ UNCHANGED <<params, lnb_lo, databuffer, lastsweep, interval, process, alive,
                 record_length, eof, clock, request, arrived, lastbuf,
                 lastevent, pubtime, pubidx, count, stoprequested,
                 stopmark>>

config == <<params, lnb_lo, interval, request>>
sweep == <<databuffer, lastsweep, clock, arrived, lastevent, pubtime, pubidx>>

\* the AttributeError of line 149 left uncaught
ReadLengthAbsent_uncaught ==
  /\ pc = "read_len"
  /\ process = "none"
  /\ pc' = "crashed"
  /\ exitreason' = "AttributeError"
  /\ UNCHANGED <<config, sweep, process, alive, record_length, eof, lastbuf,
                 count, stoprequested, stopmark>>

\* line 149 raises AttributeError: self.process is None
ReadLengthAbsent ==
  /\ pc = "read_len"
  /\ process = "none"
  /\ pc' = "loop"
  /\ UNCHANGED <<config, sweep, process, alive, record_length, eof, lastbuf,
                 count, exitreason, stoprequested,
                 stopmark>>

\* line 149 returns b'': lines 166-167
ReadLengthEmpty ==
  /\ pc = "read_len"
  /\ process = "running"
  /\ eof' = TRUE
  /\ exitreason' = "eof"
  /\ pc' = "process_stop"
  /\ UNCHANGED <<config, sweep, process, alive, record_length, lastbuf, count,
                 stoprequested,
                 stopmark>>

\* line 149 returns 1 to 3 bytes at the end of the stream: struct.unpack('I', buf)
\* at line 155 raises struct.error, which nothing in run() catches
ReadLengthShort ==
  /\ pc = "read_len"
  /\ process = "running"
  /\ ~eof
  /\ eof' = TRUE
  /\ exitreason' = "struct.error"
  /\ pc' = "crashed"
  /\ UNCHANGED <<config, sweep, process, alive, record_length, lastbuf, count,
                 stoprequested,
                 stopmark>>

\* lines 149-155: four bytes read and unpacked
ReadLength ==
  /\ pc = "read_len"
  /\ process = "running"
  /\ ~eof
  /\ count.read < MaxFrames
  /\ \E L \in LenChoices : record_length' = L
  /\ count' = [count EXCEPT !.read = @ + 1]
  /\ pc' = "read_payload"
  /\ UNCHANGED <<config, sweep, process, alive, eof, lastbuf, exitreason,
                 stoprequested,
                 stopmark>>

\* line 157 raises AttributeError
ReadPayloadAbsent ==
  /\ pc = "read_payload"
  /\ process = "none"
  /\ record_length' = 0
  /\ pc' = "loop"
  /\ UNCHANGED <<config, sweep, process, alive, eof, lastbuf, count, exitreason,
                 stoprequested,
                 stopmark>>

\* an empty frame skipped: the loop goes on to the next frame
ReadPayloadEmpty_skips_frame ==
  /\ pc = "read_payload"
  /\ process = "running"
  /\ eof' = (eof \/ record_length > 0)
  /\ record_length' = 0
  /\ exitreason' = IF record_length > 0 THEN "eof" ELSE exitreason
  /\ pc' = IF record_length > 0 THEN "process_stop" ELSE "loop"
  /\ UNCHANGED <<config, sweep, process, alive, lastbuf, count, stoprequested,
                 stopmark>>

\* line 157 returns b'' (record_length is 0, or the stream has ended): lines 164-165
ReadPayloadEmpty ==
  /\ pc = "read_payload"
  /\ process = "running"
  /\ eof' = (eof \/ record_length > 0)
  /\ record_length' = 0
  /\ exitreason' = "eof"
  /\ pc' = "process_stop"
  /\ UNCHANGED <<config, sweep, process, alive, lastbuf, count, stoprequested,
                 stopmark>>

\* line 157 returns n > 0 bytes, fewer than record_length only at the end of the
\* stream; line 163 hands them to parse_output
ReadPayload(n, buf) ==
  /\ pc = "read_payload"
  /\ process = "running"
  /\ n \in LenChoices
  /\ 0 < n
  /\ n <= record_length
  /\ buf \in Bufs(n)
  /\ eof' = (eof \/ n < record_length)
  /\ record_length' = 0
  /\ lastbuf' = buf
  /\ UNCHANGED <<config, process, alive, stoprequested,
                 stopmark>>

Raise(exception) ==
  /\ exitreason' = exception
  /\ pc' = "crashed"

\* line 117 raises struct.error
ParseShortHeader ==
  \E n \in LenChoices : \E buf \in Bufs(n) :
    /\ ReadPayload(n, buf)
    /\ ~unpack_ok(buf)
    /\ Raise("struct.error")
    /\ lastevent' = "raise"
    /\ count' = [count EXCEPT !.parsed = @ + 1]
    /\ UNCHANGED <<databuffer, lastsweep, clock, arrived, pubtime, pubidx>>

\* line 118 raises ValueError
ParseUnaligned ==
  \E n \in LenChoices : \E buf \in Bufs(n) :
    /\ ReadPayload(n, buf)
    /\ unpack_ok(buf)
    /\ ~frombuffer_ok(buf)
    /\ Raise("ValueError")
    /\ lastevent' = "raise"
    /\ count' = [count EXCEPT !.parsed = @ + 1]
    /\ UNCHANGED <<databuffer, lastsweep, clock, arrived, pubtime, pubidx>>

\* line 119 raises ZeroDivisionError
ParseNoSamples ==
  \E n \in LenChoices : \E buf \in Bufs(n) :
    /\ ReadPayload(n, buf)
    /\ unpack_ok(buf)
    /\ frombuffer_ok(buf)
    /\ len_data(buf) = 0
    /\ Raise("ZeroDivisionError")
    /\ lastevent' = "raise"
    /\ count' = [count EXCEPT !.parsed = @ + 1]
    /\ UNCHANGED <<databuffer, lastsweep, clock, arrived, pubtime, pubidx>>

Decoded(n, buf) ==
  /\ ReadPayload(n, buf)
  /\ unpack_ok(buf)
  /\ frombuffer_ok(buf)
  /\ len_data(buf) > 0

\* step is 0.0: np.arange at line 125 raises ZeroDivisionError, after line 124
ParseZeroStep ==
  \E n \in LenChoices : \E buf \in Bufs(n) :
    /\ Decoded(n, buf)
    /\ buf.high = buf.low
    /\ databuffer' = after_reset(buf)
    /\ arrived' = arrived_after_reset(buf)
    /\ Raise("ZeroDivisionError")
    /\ lastevent' = "raise"
    /\ count' = [count EXCEPT !.parsed = @ + 1]
    /\ UNCHANGED <<lastsweep, clock, pubtime, pubidx>>

\* lines 117-129, completion check not satisfied
ParseAppend ==
  \E n \in LenChoices : \E buf \in Bufs(n) :
    /\ Decoded(n, buf)
    /\ buf.high # buf.low
    /\ ~CompletionCheck(buf.high)
    /\ databuffer' = after_append(buf)
    /\ arrived' = arrived_after_append(buf)
    /\ lastevent' = "append"
    /\ count' = [count EXCEPT !.parsed = @ + 1]
    /\ pc' = "loop"
    /\ UNCHANGED <<lastsweep, clock, pubtime, pubidx, exitreason>>

\* lines 117-133, the pass ended before lastsweep + interval
ParseThrottled ==
  \E n \in LenChoices : \E buf \in Bufs(n) : \E t_finish \in 0..MaxTime :
    /\ Decoded(n, buf)
    /\ buf.high # buf.low
    /\ CompletionCheck(buf.high)
    /\ throttled(t_finish)
    /\ clock' = t_finish
    /\ databuffer' = after_append(buf)
    /\ arrived' = arrived_after_append(buf)
    /\ lastevent' = "drop"
    /\ count' = [count EXCEPT !.parsed = @ + 1, !.complete = @ + 1]
    /\ pc' = "loop"
    /\ UNCHANGED <<lastsweep, pubtime, pubidx, exitreason>>

\* lines 117-139, the sweep is sorted and handed to data_storage.update
ParsePublish ==
  \E n \in LenChoices : \E buf \in Bufs(n) : \E t_finish \in 0..MaxTime :
    /\ Decoded(n, buf)
    /\ buf.high # buf.low
    /\ CompletionCheck(buf.high)
    /\ ~throttled(t_finish)
    /\ clock' = t_finish
    /\ lastsweep' = t_finish
    /\ databuffer' = sort_databuffer(after_append(buf))
    /\ arrived' = arrived_after_append(buf)
    /\ lastevent' = "publish"
    /\ pubtime' = t_finish
    /\ pubidx' = count.complete + 1
    /\ count' = [count EXCEPT !.parsed = @ + 1, !.complete = @ + 1, !.pub = @ + 1]
    /\ pc' = "loop"
    /\ UNCHANGED exitreason

\* line 169
ProcessStop ==
  /\ pc = "process_stop"
  /\ process' = "none"
  /\ count' = [count EXCEPT !.stopcalls = @ + 1]
  /\ pc' = "clear_alive"
  /\ UNCHANGED <<config, sweep, alive, record_length, eof, lastbuf,
                 exitreason, stoprequested,
                 stopmark>>

\* line 170
ClearAlive ==
  /\ pc = "clear_alive"
  /\ alive' = FALSE
  /\ pc' = "emit_stopped"
  /\ UNCHANGED <<config, sweep, process, record_length, eof, lastbuf,
                 count, exitreason, stoprequested,
                 stopmark>>

\* line 171
EmitStopped ==
  /\ pc = "emit_stopped"
  /\ count' = [count EXCEPT !.stopped = @ + 1]
  /\ pc' = "done"
  /\ UNCHANGED <<config, sweep, process, alive, record_length, eof, lastbuf,
                 exitreason, stoprequested,
                 stopmark>>

\* ------------------------------------------------------- the other thread
InRun == pc \notin {"idle", "done", "crashed"}

\* the part of run() a position belongs to: before line 144 has run, the loop
\* of lines 145-167, or the exit of lines 169-171
Phase(at) == IF at = "set_alive" THEN "startup"
             ELSE IF at \in {"emit_started", "loop", "read_len", "read_payload"}
                    THEN "loop" ELSE "exit"

\* a stop request: another thread clears the flag the loop consults
RequestStop ==
  /\ InRun
  /\ ~stoprequested
  /\ alive' = FALSE
  /\ stoprequested' = TRUE
  /\ stopmark' = [phase |-> Phase(pc), read |-> count.read, parsed |-> count.parsed]
  /\ UNCHANGED <<config, sweep, process, pc, record_length, eof, lastbuf,
                 count, exitreason>>

\* teardown of the capture process by another thread: the channel object is gone
Teardown ==
  /\ InRun
  /\ process = "running"
  /\ process' = "none"
  /\ UNCHANGED <<config, sweep, alive, pc, record_length, eof, lastbuf,
                 count, exitreason, stoprequested,
                 stopmark>>

Next ==
  \/ Setup
  \/ RunProcessStart
  \/ SetAlive
  \/ EmitStarted
  \/ LoopEnter
  \/ LoopExit
  \/ ReadLengthAbsent
  \/ ReadLengthEmpty
  \/ ReadLengthShort
  \/ ReadLength
  \/ ReadPayloadAbsent
  \/ ReadPayloadEmpty
  \/ ParseShortHeader
  \/ ParseUnaligned
  \/ ParseNoSamples
  \/ ParseZeroStep
  \/ ParseAppend
  \/ ParseThrottled
  \/ ParsePublish
  \/ ProcessStop
  \/ ClearAlive
  \/ EmitStopped
  \/ RequestStop
  \/ Teardown

Spec == Init /\ [][Next]_vars

NextSetup == SetupWide

SpecSetup == InitSetup /\ [][NextSetup]_vars

\* ================================================================ claims
IsSortedAsc(s) == \A i \in 1..(Len(s) - 1) : s[i] <= s[i + 1]

Points(db) == SeqToBag(zip(db.x, db.y))

\* the step handed a buffer to parse_output and lines 117-119 raised nothing
ParsedStep ==
  /\ count'.parsed = count.parsed + 1
  /\ lastbuf'.n >= HeaderBytes
  /\ (lastbuf'.n - HeaderBytes) % SampleBytes = 0
  /\ lastbuf'.n > HeaderBytes

\* the step ran parse_output to its end or to its return at line 133
FoldedStep == ParsedStep /\ pc' = "loop"

\* the segment of this step satisfies the check of line 129
CompletesStep ==
  FoldedStep /\ lastbuf'.high >= params.stop_freq * MHz - lnb_lo

\* C1: every sweep handed to data_storage.update (the buffer as the publishing call
\* of parse_output leaves it) has its frequencies in ascending order and holds
\* exactly the (frequency, power) pairs appended since the last reset, each power
\* still next to the frequency it arrived with, whatever the arrival order.
C1_PublishedSorted ==
  lastevent = "publish" =>
    /\ IsSortedAsc(databuffer.x)
    /\ Len(databuffer.x) = Len(databuffer.y)
    /\ Points(databuffer) = arrived

\* a sweep of more than one segment was published, and the segment that arrived
\* last lies below a frequency that had arrived before it
C1_Witness ==
  /\ lastevent = "publish"
  /\ Len(databuffer.x) > len_data(lastbuf)
  /\ \A i \in 1..len_data(lastbuf) :
       x_axis(lastbuf)[i] < databuffer.x[Len(databuffer.x)]

\* C2: a publication is never made earlier than interval seconds after the previous
\* publication of the session, whatever the clock does and so also when it never
\* goes backwards.
C2_MinInterval ==
  [][(count'.pub = count.pub + 1 /\ count.pub >= 1)
       => pubtime' >= pubtime + interval]_vars

\* two sweeps were published in a session with a positive interval
C2_Witness ==
  /\ count.pub >= 2
  /\ interval > 0

\* C3: when a segment satisfies the completion check and now < lastsweep + interval,
\* nothing is published, lastsweep is unchanged and the buffer is the buffer after
\* the append step, unsorted; otherwise lastsweep becomes now and one publish call
\* is made.
C3_ThrottleEffect ==
  [][CompletesStep =>
       IF clock' < lastsweep + interval
       THEN /\ count'.pub = count.pub
            /\ lastevent' = "drop"
            /\ pubtime' = pubtime
            /\ lastsweep' = lastsweep
            /\ databuffer' = after_append(lastbuf')
       ELSE /\ count'.pub = count.pub + 1
            /\ lastevent' = "publish"
            /\ pubtime' = clock'
            /\ lastsweep' = clock']_vars

\* a second completion was dropped after a first was published, and the buffer
\* holds the points of both
C3_Witness ==
  /\ count.complete = 2
  /\ count.pub = 1
  /\ pubidx = 1
  /\ lastevent = "drop"
  /\ Len(databuffer.x) > len_data(lastbuf)

\* C4: a segment whose floor(low_edge / 1e6) <= start_freq - lnb_lo / 1e6 leaves in
\* the buffer nothing but its own points; any other segment, published, dropped or
\* merely appended, keeps every point the buffer held and adds its own; no other
\* step of run() changes the points of the buffer.
C4_ResetOnlyAtSweepStart ==
  [][IF ParsedStep
       THEN LET buf == lastbuf'
                own == IF pc' = "loop" THEN SeqToBag(zip(x_axis(buf), buf.data))
                       ELSE EmptyBag
            IN  IF (buf.low \div MHz) * MHz <= params.start_freq * MHz - lnb_lo
                  THEN Points(databuffer') = own
                  ELSE Points(databuffer') = Points(databuffer) (+) own
       ELSE pc # "idle" => Points(databuffer') = Points(databuffer)]_vars

\* the second segment of a run started a new sweep: the buffer holds its points only
C4_Witness ==
  /\ pc = "loop"
  /\ count.parsed = 2
  /\ Len(databuffer.x) = len_data(lastbuf)

\* C5: a publication is made only by a segment that satisfies the completion check,
\* one publication at most per completion, and it is the publication of that
\* completion: the completions published are in the order in which they happened.
C5_PublishOrder ==
  [][count'.pub # count.pub =>
       /\ CompletesStep
       /\ count'.pub = count.pub + 1
       /\ count'.complete = count.complete + 1
       /\ lastevent' = "publish"
       /\ pubidx' = count'.complete
       /\ pubidx' > pubidx]_vars

\* the first completion was dropped and the second published
C5_Witness ==
  /\ count.complete = 2
  /\ count.pub = 1
  /\ pubidx = 2

\* the worker thread has left run(), by its last line or by an exception
RunOver == pc \in {"done", "crashed"}

\* the while loop of run() has been left
LoopLeft == pc \in {"process_stop", "clear_alive", "emit_stopped", "done", "crashed"}

\* C6: in one run the process is launched, then 'started' is emitted once before any
\* frame is read, then frames are read, then the process is stopped and 'stopped'
\* is emitted once; the loop is left only by an observed stop request or by the end
\* of the stream, and a run that is over has emitted 'stopped'.
C6_Lifecycle ==
  /\ count.launched <= 1 /\ count.started <= 1 /\ count.stopped <= 1
  /\ count.started = 1 => count.launched = 1
  /\ count.read > 0 => count.started = 1
  /\ count.stopcalls > 0 => (count.started = 1 /\ LoopLeft)
  /\ count.stopped = 1 => (count.stopcalls = 1 /\ pc = "done")
  /\ LoopLeft => exitreason \in {"stop", "eof"}
  /\ RunOver => count.stopped = 1

\* a read of this step returned fewer bytes than asked for, or none: the stream
\* is at its end after it
ShortOrEmptyRead ==
  /\ pc \in {"read_len", "read_payload"}
  /\ pc' # pc
  /\ process = "running"
  /\ eof'

\* C7: a short or empty read, of the length or of the payload, ends the loop as a
\* normal completion: nothing is decoded, no error is raised, the run goes on to
\* process stop.
C7_ShortReadEndsStream ==
  [][ShortOrEmptyRead =>
       /\ pc' = "process_stop"
       /\ exitreason' = "eof"
       /\ count'.parsed = count.parsed
       /\ databuffer' = databuffer]_vars

\* the payload handed to parse_output is shorter than the header or not sample-aligned
Malformed(buf) ==
  \/ buf.n < HeaderBytes
  \/ (buf.n - HeaderBytes) % SampleBytes # 0

\* C8: a malformed frame is not folded into the buffer, ends Running with a reported
\* error, and the session still goes on to stop the process and emit 'stopped'.
C8_MalformedFrameFatal ==
  [][(count'.parsed = count.parsed + 1 /\ Malformed(lastbuf')) =>
       /\ databuffer' = databuffer
       /\ exitreason' \in {"struct.error", "ValueError"}
       /\ pc' = "process_stop"]_vars

\* C9: setup with stop_freq <= start_freq stores no parameters, and no process is
\* launched for such a request.
C9_InvalidRangeRejected ==
  (request # NoRequest /\ request.stop_freq <= request.start_freq) =>
    (params = NoParams /\ count.launched = 0)

\* C10: for stop_freq > start_freq and a whole-MHz step, the derived stop is the
\* requested stop rounded up to the next multiple of the step above start_freq:
\* not below the request, a whole number of steps from start, less than one step
\* above the request, and the request itself when that is already a multiple.
C10_StopRoundedUp ==
  (params # NoParams /\ request.stop_freq > request.start_freq) =>
    LET step_bandwidth == request.sample_rate \div MHz
        span == request.stop_freq - request.start_freq
    IN  /\ params.start_freq = request.start_freq
        /\ params.stop_freq >= request.stop_freq
        /\ (params.stop_freq - params.start_freq) % step_bandwidth = 0
        /\ params.stop_freq - request.stop_freq < step_bandwidth
        /\ span % step_bandwidth = 0 => params.stop_freq = request.stop_freq

\* setup rounded a requested stop up
C10_Witness ==
  /\ params # NoParams
  /\ request.stop_freq > request.start_freq
  /\ params.stop_freq > request.stop_freq

\* C11: with the gain clamped to 102, a gain >= 0 is split into lna_gain =
\* 8 * floor(gain / 18) and vga_gain = 2 * floor((gain - lna_gain) / 2): the stages
\* sum to at most the gain and to no less than the gain minus 9, lna_gain is a
\* multiple of 8 and vga_gain of 2; for a gain below 0 both stages are 0.
C11_GainSplit ==
  params # NoParams =>
    LET gain == IF request.gain > 102 THEN 102 ELSE request.gain IN
    /\ params.gain = gain
    /\ IF gain >= 0
         THEN /\ params.lna_gain = 8 * (gain \div 18)
              /\ params.vga_gain = 2 * ((gain - params.lna_gain) \div 2)
              /\ params.lna_gain + params.vga_gain <= gain
              /\ gain - (params.lna_gain + params.vga_gain) <= 9
              /\ params.lna_gain % 8 = 0
              /\ params.vga_gain % 2 = 0
              /\ params.lna_gain >= 0 /\ params.vga_gain >= 0
         ELSE params.lna_gain = 0 /\ params.vga_gain = 0

\* setup split a gain above 102 as it splits 102, with both stages in use
C11_Witness ==
  /\ params # NoParams
  /\ request.gain > 102
  /\ params.lna_gain = 40
  /\ params.vga_gain = 62

\* C12: the frequency and the power sequence of the buffer have the same length
\* in every state, a published sweep included, and a decoded segment of N samples
\* adds exactly N entries to each (to the emptied buffer when it passes the reset
\* check).
C12_EqualLengths ==
  [][/\ Len(databuffer'.x) = Len(databuffer'.y)
     /\ FoldedStep =>
          LET N    == (lastbuf'.n - 16) \div 4
              kept == IF (lastbuf'.low \div MHz) * MHz <= params.start_freq * MHz - lnb_lo
                        THEN 0 ELSE Len(databuffer.x)
          IN  /\ Len(databuffer'.x) = kept + N
              /\ Len(databuffer'.y) = kept + N]_vars

\* a sweep of three points, made of a one-sample and a two-sample segment, is out
C12_Witness ==
  /\ lastevent = "publish"
  /\ count.parsed = 2
  /\ Len(databuffer.x) = 3
  /\ Len(databuffer.y) = 3

\* C13: the flag is consulted only between iterations. After a stop request made
\* inside the loop the flag stays cleared, the iteration in progress is carried
\* through, and no later one is started: at most one length prefix is read and at
\* most one frame is handed to parse_output after the request.
C13_StopAtFrameBoundary ==
  (stoprequested /\ stopmark.phase = "loop") =>
    /\ ~alive
    /\ count.read - stopmark.read <= 1
    /\ count.parsed - stopmark.parsed <= 1
    /\ count.parsed - stopmark.parsed = 1 => pc \notin {"read_len", "read_payload"}

\* a stop request arrived while a read was pending; the frame was still handled
\* and published, then the loop was left because of the flag
C13_Witness ==
  /\ stoprequested
  /\ stopmark.phase = "loop"
  /\ count.parsed - stopmark.parsed = 1
  /\ lastevent = "publish"
  /\ pubidx = count.complete
  /\ exitreason = "stop"
  /\ pc = "done"

\* C14: a segment is never split across two buffers. The reset check comes before
\* the first append, so all N (frequency, power) pairs of a decoded segment are
\* together in the buffer after the call: in the fresh buffer, which then holds
\* these N pairs and nothing else, when the segment passed the reset check, and
\* added to the pairs already there otherwise.
C14_SegmentInOneBuffer ==
  [][FoldedStep =>
       LET own == SeqToBag(zip(x_axis(lastbuf'), lastbuf'.data)) IN
       /\ BagCardinality(own) = (lastbuf'.n - 16) \div 4
       /\ own \sqsubseteq Points(databuffer')
       /\ IF (lastbuf'.low \div MHz) * MHz <= params.start_freq * MHz - lnb_lo
            THEN Points(databuffer') = own
            ELSE Points(databuffer') = Points(databuffer) (+) own]_vars

\* a two-sample segment passed the reset check while the buffer held an earlier
\* segment: the buffer now holds the two new points only
C14_Witness ==
  /\ pc = "loop"
  /\ count.parsed = 2
  /\ lastevent # "raise"
  /\ (lastbuf.n - 16) \div 4 = 2
  /\ (lastbuf.low \div MHz) * MHz <= params.start_freq * MHz - lnb_lo
  /\ Len(databuffer.x) = 2
  /\ Points(databuffer) = SeqToBag(zip(x_axis(lastbuf), lastbuf.data))

\* C15: a read attempted while the channel object is absent, the length read or
\* the payload read, is recovered locally: the session goes on (no exit, no
\* error, nothing emitted), the buffer, the throttle state and the flag are as
\* before, no frame is parsed, and control is back at the check of the flag.
C15_AbsentReadRecovered ==
  [][(pc \in {"read_len", "read_payload"} /\ process = "none" /\ pc' # pc) =>
       /\ pc' = "loop"
       /\ exitreason = "none" /\ exitreason' = "none"
       /\ databuffer' = databuffer
       /\ lastsweep' = lastsweep
       /\ alive' = alive
       /\ count' = count
       /\ process' = process]_vars

\* the payload read failed on the absent channel after a length prefix had been
\* read: the loop is back at the flag, still alive, and nothing was parsed
C15_Witness ==
  /\ pc = "loop"
  /\ process = "none"
  /\ alive
  /\ count.read = 1
  /\ count.parsed = 0
  /\ exitreason = "none"

\* what C16 says of the call that handled the segment lastbuf': the call returns,
\* the step is positive, and N values low + lnb_lo + step/2 + (i - 1) * step, i in
\* 1..N, each paired with the i-th power, are added to the buffer (at its end and
\* in this order as long as the buffer is not sorted for publication)
AxisAsClaimed ==
  LET buf   == lastbuf'
      N     == (buf.n - 16) \div 4
      stepD == (buf.high - buf.low) * (Den \div N)
      first == Den * (buf.low + lnb_lo) + (buf.high - buf.low) * (Den \div (2 * N))
      exp   == [i \in 1..N |-> <<first + (i - 1) * stepD, buf.data[i]>>]
      kept  == IF (buf.low \div MHz) * MHz <= params.start_freq * MHz - lnb_lo
                 THEN 0 ELSE Len(databuffer.x)
  IN  /\ pc' = "loop"
      /\ stepD > 0
      /\ Len(databuffer'.x) = kept + N
      /\ Len(databuffer'.y) = kept + N
      /\ SeqToBag(exp) \sqsubseteq Points(databuffer')
      /\ lastevent' # "publish" =>
           \A i \in 1..N : /\ databuffer'.x[kept + i] = exp[i][1]
                           /\ databuffer'.y[kept + i] = exp[i][2]

\* C16 as stated: for every decoded segment with N >= 1 samples the appended
\* frequencies are N values, the first low + lnb_lo + step/2, each next larger by
\* step = (high - low) / N, strictly increasing, paired in order with the powers.
C16_AxisOfAnySegment ==
  [][ParsedStep => AxisAsClaimed]_vars

\* C16, amended: the same for every decoded segment with N >= 1 samples whose
\* high edge is above its low edge.
C16_AxisOfForwardSegment ==
  [][(ParsedStep /\ lastbuf'.high > lastbuf'.low) => AxisAsClaimed]_vars

\* a two-sample segment with high edge above low edge was appended and not
\* published: the last two frequencies are the bin centres, one step apart
C16_Witness ==
  /\ pc = "loop"
  /\ lastevent = "append"
  /\ (lastbuf.n - 16) \div 4 = 2
  /\ lastbuf.high > lastbuf.low
  /\ Len(databuffer.x) >= 2
  /\ 4 * databuffer.x[Len(databuffer.x) - 1]
       = Den * (4 * (lastbuf.low + lnb_lo) + (lastbuf.high - lastbuf.low))
  /\ 2 * (databuffer.x[Len(databuffer.x)] - databuffer.x[Len(databuffer.x) - 1])
       = Den * (lastbuf.high - lastbuf.low)

\* C17: a published sweep consists of exactly the points of the segments handled
\* since and including the most recent segment that passed the reset check (since
\* the start of the session when none did), whether those segments were published,
\* throttled or merely appended: no earlier point is in it and none of these is
\* missing.
C17_PublishedSinceReset ==
  lastevent = "publish" =>
    /\ \A p \in BagToSet(Points(databuffer)) : BagIn(p, arrived)
    /\ \A p \in BagToSet(arrived) :
         CopiesIn(p, Points(databuffer)) = CopiesIn(p, arrived)
    /\ Len(databuffer.x) = BagCardinality(arrived)

\* the second segment of the session passed the reset check and completed the
\* sweep: what was published is this segment alone, the first one is gone
C17_Witness ==
  /\ lastevent = "publish"
  /\ count.parsed = 2
  /\ (lastbuf.low \div MHz) * MHz <= params.start_freq * MHz - lnb_lo
  /\ Len(databuffer.x) = (lastbuf.n - 16) \div 4
  /\ BagCardinality(arrived) = Len(databuffer.x)

\* C18: a stop request made at any point after run() was entered is never lost:
\* after it the loop reads no frame beyond the one iteration that was in progress
\* at the request (none when the request came before the loop or at its exit).
C18_StopNeverLost ==
  stoprequested =>
    count.read - stopmark.read <= (IF stopmark.phase = "loop" THEN 1 ELSE 0)

\* C19: with interval = 0 a completing segment whose finish time is not before
\* lastsweep, as is every finish time of a non-decreasing clock, is never dropped:
\* it makes exactly one call of update. And for any interval the first completion
\* of a session is published whenever its finish time is at least the interval.
C19_ThrottleNeverDrops ==
  [][CompletesStep =>
       /\ (interval = 0 /\ clock' >= lastsweep) =>
            /\ count'.pub = count.pub + 1
            /\ lastevent' = "publish"
            /\ lastsweep' = clock'
       /\ (count.complete = 0 /\ clock' >= interval) =>
            /\ lastsweep = 0
            /\ count'.pub = 1
            /\ lastevent' = "publish"]_vars

\* interval = 0: two completions in a row, the second at the time of the first,
\* and both were published
C19_Witness ==
  /\ interval = 0
  /\ count.complete = 2
  /\ count.pub = 2
  /\ lastevent = "publish"
  /\ pubidx = 2
  /\ lastsweep = clock

\* C20: a frame whose length prefix is 0 ends the loop as the end of the stream
\* does, also when more frames follow: the payload read leaves the loop without
\* decoding anything, without touching buffer or throttle state and without an
\* error, and the run then goes through its exit: when it is over the process has
\* been stopped once and "stopped" emitted once.
C20_EmptyFrameEndsRun ==
  [][/\ (pc = "read_payload" /\ record_length = 0 /\ process = "running"
           /\ pc' # pc) =>
          /\ pc' = "process_stop"
          /\ exitreason' = "eof"
          /\ eof' = eof
          /\ count' = count
          /\ databuffer' = databuffer
          /\ lastsweep' = lastsweep
     /\ exitreason = "eof" =>
          /\ exitreason' = "eof"
          /\ pc \in {"process_stop", "clear_alive", "emit_stopped", "done"}
          /\ pc' \in {"process_stop", "clear_alive", "emit_stopped", "done"}
          /\ count'.parsed = count.parsed
          /\ pc' = "done" => /\ count'.stopcalls = 1
                             /\ count'.stopped = 1
                             /\ process' = "none"
                             /\ ~alive']_vars

\* a run that ended on an empty frame while the stream had not ended: nothing
\* was parsed after it, the process is stopped and "stopped" is out
C20_Witness ==
  /\ pc = "done"
  /\ exitreason = "eof"
  /\ ~eof
  /\ count.read = 2
  /\ count.parsed = 1
  /\ count.stopcalls = 1
  /\ count.stopped = 1
  /\ process = "none"

====
